---- MODULE Spec2Model ----
(***************************************************************************)
(* A model of src/main.rs: the video compressor's batch driver             *)
(* (compress_videos), its clean-up gate (delete_original_files) and main.  *)
(*                                                                         *)
(* A file name is a sequence of tokens: "." is the dot character, any      *)
(* other token is a dot-free run of characters ("xFF" is a run holding a   *)
(* byte that is not valid UTF-8).  A path is a sequence of file names.     *)
(***************************************************************************)
EXTENDS Naturals, Integers, Sequences, FiniteSets, TLC

VARIABLES
    fs,           \* regular files: path -> content (a sequence of bytes)
    dirs,         \* the directories that exist
    unreadable,   \* directories whose entries cannot be read
    links,        \* symbolic links (never followed below the root)
    input_directory,
    output_directory,
    pc,           \* the position of the single control thread
    video_files,  \* the list the current function iterates
    idx,          \* 1-based position of the for loops in video_files
    job,          \* the job descriptor of the current iteration
    fdOut,        \* offset of the child's stdout descriptor, -1 when closed
    fdErr,        \* offset of the child's stderr descriptor, -1 when closed
    child,        \* the indices of the jobs whose encoder process is alive
    wrote,        \* what the live child wrote so far: [out |-> seq, err |-> seq]
    nwrites,      \* writes performed by encoder processes in this run
    pb,           \* the progress bar: [started, len, pos, finished]
    stderr,       \* lines printed to standard error
    stdout,       \* lines printed to standard output
    input,        \* the String read_line filled
    exit,         \* process exit status; -1 while running
    fatal,        \* which call returned the io::Error that ended the run
    hist,         \* history: what the program did to the world
    fs0,          \* the regular files when the program started
    dirs0         \* the directories when the program started

vars == <<fs, dirs, unreadable, links, input_directory, output_directory, pc,
          video_files, idx, job, fdOut, fdErr, child, wrote, nwrites, pb,
          stderr, stdout, input, exit, fatal, hist, fs0, dirs0>>

-----------------------------------------------------------------------------
(* Bounds of the model.                                                    *)

MaxFiles == 2      \* regular files under the input root in the initial tree
MaxWrites == 2     \* write calls of encoder processes in one run
MaxLine == 2       \* characters before the line terminator of the answer
MaxTree == 3       \* entries below the root of the trees of SpecDisc
MaxName == 3       \* tokens of the file names of SpecJob

-----------------------------------------------------------------------------
(* Sequences.                                                              *)

Last(s) == s[Len(s)]

Front(s) == SubSeq(s, 1, Len(s) - 1)

Range(s) == {s[k] : k \in 1..Len(s)}

IsPrefix(p, q) == Len(p) <= Len(q) /\ SubSeq(q, 1, Len(p)) = p

RECURSIVE Flatten(_)
Flatten(ss) == IF ss = <<>> THEN <<>> ELSE Head(ss) \o Flatten(Tail(ss))


-----------------------------------------------------------------------------
(* std::path: file_name, join, with_extension, to_str.                     *)

Dot == "."

\* a variant of file_name that keeps the name of the parent directory in
\* front of the file name, so that files of different directories differ
file_name_with_parent(p) == IF Len(p) >= 2 THEN p[Len(p) - 1] \o Last(p) ELSE Last(p)

\* Path::file_name: the last component
file_name(p) == Last(p)

\* Path::join with a relative one-component path
join(base, name) == Append(base, name)

\* index of the last "." of a file name, 0 when it has none
LastDot(n) ==
    IF \E k \in 1..Len(n) : n[k] = Dot
    THEN CHOOSE k \in 1..Len(n) : n[k] = Dot /\ \A m \in (k+1)..Len(n) : n[m] # Dot
    ELSE 0

\* mutant of file_stem: the name is cut at its first dot
file_stem_first_dot(n) ==
    IF \E k \in 2..Len(n) : n[k] = Dot
    THEN SubSeq(n, 1, (CHOOSE k \in 2..Len(n) :
                          n[k] = Dot /\ \A m \in 2..(k - 1) : n[m] # Dot) - 1)
    ELSE n

\* Path::file_stem: the name up to its last dot; the whole name when it has
\* no dot or when the only dot leads it
file_stem(n) == IF LastDot(n) <= 1 THEN n ELSE SubSeq(n, 1, LastDot(n) - 1)

\* Path::with_extension: truncate the last component to its stem, push
\* "." and the new extension
with_extension(p, ext) == Append(Front(p), file_stem(Last(p)) \o <<Dot, ext>>)

\* Path::to_str: Some(..) only when every component is valid UTF-8
to_str_is_some(p) == \A k \in 1..Len(p) : \A m \in 1..Len(p[k]) : p[k][m] # "xFF"

-----------------------------------------------------------------------------
(* The job descriptor of one iteration (main.rs lines 39-40).              *)

output_file(out_dir, video_file) == join(out_dir, file_name(video_file))

log_file(out_dir, video_file) == with_extension(output_file(out_dir, video_file), "log")

NoJob == [src |-> <<>>, out |-> <<>>, log |-> <<>>]

BuildJob(out_dir, video_file) ==
    [src |-> video_file,
     out |-> output_file(out_dir, video_file),
     log |-> log_file(out_dir, video_file)]

-----------------------------------------------------------------------------
(* walkdir: WalkDir::new(root).into_iter(), links not followed.            *)

nIn == <<"in">>
nOut == <<"out">>
nSub == <<"sub">>
nA == <<"a", Dot, "mp4">>
nB == <<"b", Dot, "mov">>
nBad == <<"xFF", Dot, "mp4">>
nALog == <<"a", Dot, "log">>

\* the order in which read_dir hands out the entries of a directory
ReaddirOrder == <<nB, nSub, nA, nOut, nBad, nALog>>

NameRank(n) ==
    IF \E k \in 1..Len(ReaddirOrder) : ReaddirOrder[k] = n
    THEN CHOOSE k \in 1..Len(ReaddirOrder) : ReaddirOrder[k] = n
    ELSE Len(ReaddirOrder) + 1

RECURSIVE InReaddirOrder(_)
InReaddirOrder(S) ==
    IF S = {} THEN <<>>
    ELSE LET m == CHOOSE x \in S :
                      \A y \in S : NameRank(Last(x)) <= NameRank(Last(y))
         IN  <<m>> \o InReaddirOrder(S \ {m})

\* the entries of directory p
Children(F, D, L, p) ==
    {q \in F \cup D \cup L : Len(q) = Len(p) + 1 /\ IsPrefix(p, q)}

WalkErr == [ok |-> FALSE, path |-> <<>>, ftype |-> "error"]

DirEntry(p, t) == [ok |-> TRUE, path |-> p, ftype |-> t]

RECURSIVE WalkDir(_, _, _, _, _)
\* the Result<DirEntry> items of the walk below p, a directory before its
\* contents; F regular files, D directories, U unreadable directories,
\* L symbolic links
WalkDir(F, D, U, L, p) ==
    IF p \in F THEN <<DirEntry(p, "file")>>
    ELSE IF p \in L THEN <<DirEntry(p, "symlink")>>
    ELSE IF p \in D
    THEN <<DirEntry(p, "dir")>> \o
         (IF p \in U THEN <<WalkErr>>
          ELSE LET kids == InReaddirOrder(Children(F, D, L, p))
               IN  Flatten([k \in 1..Len(kids) |-> WalkDir(F, D, U, L, kids[k])]))
    ELSE <<WalkErr>>

\* .filter_map(|e| e.ok())
FilterOk(es) == SelectSeq(es, LAMBDA e : e.ok)

\* mutant of FilterIsFile: the filter on the file type is missing
FilterKeepsAll(es) == es

\* .filter(|e| e.file_type().is_file())
FilterIsFile(es) == SelectSeq(es, LAMBDA e : e.ftype = "file")

\* .map(|e| e.into_path()).collect()
MapIntoPath(es) == [k \in 1..Len(es) |-> es[k].path]

\* main.rs lines 16-21 and 132-137
CollectFiles(F, D, U, L, root) ==
    MapIntoPath(FilterIsFile(FilterOk(WalkDir(F, D, U, L, root))))

-----------------------------------------------------------------------------
(* Files, descriptors, messages.                                           *)

Byte(j, s, k) == [job |-> j, stream |-> s, k |-> k]

SrcContent == <<Byte(0, "src", 0)>>
OldContent == <<Byte(0, "old", 0)>>
Hole == Byte(0, "hole", 0)

\* Path::exists
Exists(p) == p \in dirs \/ p \in DOMAIN fs \/ p \in links

\* the file system with path p holding content c
WithFile(f, p, c) == [q \in DOMAIN f \cup {p} |-> IF q = p THEN c ELSE f[q]]

WithoutFile(f, p) == [q \in DOMAIN f \ {p} |-> f[q]]

\* write(2) of one byte through a descriptor whose offset is off
WriteAt(c, off, b) ==
    IF off < Len(c) THEN [c EXCEPT ![off + 1] = b]
    ELSE c \o [k \in 1..(off - Len(c)) |-> Hole] \o <<b>>

\* fs::create_dir_all: the directory and every missing ancestor
WithAncestors(p) == {SubSeq(p, 1, k) : k \in 1..Len(p)}

\* File::create can succeed: the parent is a directory, the path is none
Creatable(p) == Front(p) \in dirs /\ p \notin dirs

Msg(m, p) == [msg |-> m, path |-> p]

NoPath == <<>>

Closed == -1

NoWrites == [out |-> <<>>, err |-> <<>>]

\* history: directories created, log files created, source paths handed to
\* the encoder, exits of encoder processes, output paths the encoder wrote,
\* files removed, questions asked, lines read; and what others did while the
\* batch ran: files that appeared, files that vanished
NoHist == [mkdirs |-> 0, created |-> {}, invoked |-> <<>>, exits |-> <<>>,
           encoded |-> {}, deleted |-> <<>>, prompts |-> 0, reads |-> 0,
           appeared |-> {}, vanished |-> {}]

NewBar == [started |-> FALSE, len |-> 0, pos |-> 0, finished |-> 0]

\* main returns Err(e): the runtime prints it and the process exits with 1
Fail(call) ==
    /\ pc' = "exited"
    /\ exit' = 1
    /\ fatal' = call
    /\ stderr' = Append(stderr, Msg("Error", NoPath))

\* Option::unwrap on None: the thread panics and the process exits with 101
Panic ==
    /\ pc' = "exited"
    /\ exit' = 101
    /\ fatal' = "panic"
    /\ stderr' = Append(stderr, Msg("panicked", NoPath))

\* what no step of the program changes
env == <<unreadable, links, input_directory, output_directory, fs0, dirs0>>
world == <<fs, dirs, env>>
procs == <<job, fdOut, fdErr, child, wrote, nwrites>>

-----------------------------------------------------------------------------
(* compress_videos, main.rs lines 9-74.                                    *)

\* lines 11-13: the output directory exists, nothing is created
OutputDirExists ==
    /\ pc = "start"
    /\ Exists(output_directory)
    /\ pc' = "collect"
    /\ UNCHANGED <<world, procs, video_files, idx, pb, stderr, stdout, input,
                   exit, fatal, hist>>

\* a variant whose create_dir_all reports success and creates nothing
CreateDirAllNothing ==
    /\ pc = "start"
    /\ ~Exists(output_directory)
    /\ dirs' = dirs
    /\ hist' = [hist EXCEPT !.mkdirs = @ + 1]
    /\ pc' = "collect"
    /\ UNCHANGED <<fs, env, procs, video_files, idx, pb, stderr, stdout, input, exit, fatal>>

\* lines 11-13: fs::create_dir_all(output_dir) succeeds
CreateDirAll ==
    /\ pc = "start"
    /\ ~Exists(output_directory)
    /\ dirs' = dirs \cup WithAncestors(output_directory)
    /\ hist' = [hist EXCEPT !.mkdirs = @ + 1]
    /\ pc' = "collect"
    /\ UNCHANGED <<fs, env, procs, video_files, idx, pb, stderr, stdout, input, exit, fatal>>

\* lines 11-13: fs::create_dir_all(output_dir)? returns the error
CreateDirAllFails ==
    /\ pc = "start"
    /\ ~Exists(output_directory)
    /\ Fail("create_dir_all")
    /\ UNCHANGED <<world, procs, video_files, idx, pb, stdout, input, hist>>

\* lines 16-21: collect the files below the input directory
CollectVideoFiles ==
    /\ pc = "collect"
    /\ video_files' = CollectFiles(DOMAIN fs, dirs, unreadable, links, input_directory)
    /\ pc' = "is_empty"
    /\ UNCHANGED <<world, procs, idx, pb, stderr, stdout, input, exit, fatal, hist>>

\* mutant of NoVideoFiles: the report is printed, the return is missing
NoVideoFilesNoReturn ==
    /\ pc = "is_empty"
    /\ video_files = <<>>
    /\ stderr' = Append(stderr, Msg("No video files found in the input directory.", NoPath))
    /\ idx' = 1
    /\ pc' = "for"
    /\ UNCHANGED <<world, procs, video_files, pb, stdout, input, exit, fatal, hist>>

\* lines 24-27: nothing found, report and return Ok(())
NoVideoFiles ==
    /\ pc = "is_empty"
    /\ video_files = <<>>
    /\ stderr' = Append(stderr, Msg("No video files found in the input directory.", NoPath))
    /\ pc' = "main_collect"
    /\ UNCHANGED <<world, procs, video_files, idx, pb, stdout, input, exit, fatal, hist>>

\* lines 30-36: ProgressBar::new(video_files.len())
NewProgressBar ==
    /\ pc = "is_empty"
    /\ video_files # <<>>
    /\ pb' = [started |-> TRUE, len |-> Len(video_files), pos |-> 0, finished |-> 0]
    /\ idx' = 1
    /\ pc' = "for"
    /\ UNCHANGED <<world, procs, video_files, stderr, stdout, input, exit, fatal, hist>>

\* lines 39-60: the paths of the job and the argument list of the command
BuildCommand ==
    /\ pc = "for"
    /\ idx <= Len(video_files)
    /\ LET j == BuildJob(output_directory, video_files[idx])
       IN  IF to_str_is_some(j.src) /\ to_str_is_some(j.out)
           THEN /\ job' = j
                /\ pc' = "stdout"
                /\ UNCHANGED <<stderr, exit, fatal>>
           ELSE /\ Panic
                /\ UNCHANGED job
    /\ UNCHANGED <<world, fdOut, fdErr, child, wrote, nwrites, video_files, idx,
                   pb, stdout, input, hist>>

\* line 61: .stdout(fs::File::create(&log_file)?) creates or truncates
CreateStdoutLog ==
    /\ pc = "stdout"
    /\ Creatable(job.log)
    /\ fs' = WithFile(fs, job.log, <<>>)
    /\ fdOut' = 0
    /\ hist' = [hist EXCEPT !.created = @ \cup {job.log}]
    /\ pc' = "stderr"
    /\ UNCHANGED <<dirs, env, job, fdErr, child, wrote, nwrites, video_files, idx, pb,
                   stderr, stdout, input, exit, fatal>>

\* line 62: .stderr(fs::File::create(&log_file)?) creates or truncates again
CreateStderrLog ==
    /\ pc = "stderr"
    /\ Creatable(job.log)
    /\ fs' = WithFile(fs, job.log, <<>>)
    /\ fdErr' = 0
    /\ hist' = [hist EXCEPT !.created = @ \cup {job.log}]
    /\ pc' = "spawn"
    /\ UNCHANGED <<dirs, env, job, fdOut, child, wrote, nwrites, video_files, idx, pb,
                   stderr, stdout, input, exit, fatal>>

\* mutant of CreateLogFails: the error is dropped, the command goes on
CreateLogFailsIgnored ==
    /\ pc \in {"stdout", "stderr"}
    /\ fatal' = "File::create"
    /\ pc' = "spawn"
    /\ UNCHANGED <<world, procs, video_files, idx, pb, stderr, stdout, input,
                   exit, hist>>

\* lines 61-62: File::create(&log_file)? returns the error
CreateLogFails ==
    /\ pc \in {"stdout", "stderr"}
    /\ Fail("File::create")
    /\ fdOut' = Closed
    /\ UNCHANGED <<world, job, fdErr, child, wrote, nwrites, video_files, idx,
                   pb, stdout, input, hist>>

\* line 63: .status() spawns the encoder
Spawn ==
    /\ pc = "spawn"
    /\ child' = child \cup {idx}
    /\ wrote' = NoWrites
    /\ hist' = [hist EXCEPT !.invoked = Append(@, job.src)]
    /\ pc' = "wait"
    /\ UNCHANGED <<world, job, fdOut, fdErr, nwrites, video_files, idx, pb,
                   stderr, stdout, input, exit, fatal>>

\* mutant of SpawnFails: the error is taken for a failed file
SpawnFailsAsJobFailure ==
    /\ pc = "spawn"
    /\ fatal' = "status"
    /\ pc' = "failure"
    /\ UNCHANGED <<world, procs, video_files, idx, pb, stderr, stdout, input,
                   exit, hist>>

\* line 63: .status()? returns the error, the encoder was not started
SpawnFails ==
    /\ pc = "spawn"
    /\ Fail("status")
    /\ fdOut' = Closed
    /\ fdErr' = Closed
    /\ UNCHANGED <<world, job, child, wrote, nwrites, video_files, idx, pb,
                   stdout, input, hist>>

\* the encoder writes one byte to its standard output: the descriptor the
\* first File::create opened, with an offset of its own
ChildWritesStdout ==
    /\ pc = "wait"
    /\ idx \in child
    /\ nwrites < MaxWrites
    /\ LET b == Byte(idx, "out", Len(wrote.out) + 1)
       IN  /\ fs' = [fs EXCEPT ![job.log] = WriteAt(@, fdOut, b)]
           /\ wrote' = [wrote EXCEPT !.out = Append(@, b)]
    /\ fdOut' = fdOut + 1
    /\ nwrites' = nwrites + 1
    /\ UNCHANGED <<dirs, env, pc, job, fdErr, child, video_files, idx, pb, stderr, stdout,
                   input, exit, fatal, hist>>

\* the encoder writes one byte to its standard error: the descriptor the
\* second File::create opened, with an offset of its own
ChildWritesStderr ==
    /\ pc = "wait"
    /\ idx \in child
    /\ nwrites < MaxWrites
    /\ LET b == Byte(idx, "err", Len(wrote.err) + 1)
       IN  /\ fs' = [fs EXCEPT ![job.log] = WriteAt(@, fdErr, b)]
           /\ wrote' = [wrote EXCEPT !.err = Append(@, b)]
    /\ fdErr' = fdErr + 1
    /\ nwrites' = nwrites + 1
    /\ UNCHANGED <<dirs, env, pc, job, fdOut, child, video_files, idx, pb, stderr, stdout,
                   input, exit, fatal, hist>>

\* a variant that does not wait: the command is left running (spawn() in
\* place of status()) and the loop goes on as if it had exited
ChildDetached(success, encoded) ==
    /\ pc = "wait"
    /\ idx \in child
    /\ success => encoded
    /\ child' = child
    /\ fdOut' = Closed
    /\ fdErr' = Closed
    /\ fs' = IF encoded THEN WithFile(fs, job.out, <<Byte(idx, "enc", 0)>>) ELSE fs
    /\ hist' = [hist EXCEPT !.encoded = IF encoded THEN @ \cup {job.out} ELSE @,
                            !.exits = Append(@, [src |-> job.src, ok |-> success])]
    /\ pc' = IF success THEN "success" ELSE "failure"
    /\ UNCHANGED <<dirs, env, job, wrote, nwrites, video_files, idx, pb, stderr, stdout,
                   input, exit, fatal>>

\* the encoder exits; status() returns its ExitStatus.  An encoder that exits
\* with zero has written its output file, one that fails may have
ChildExits(success, encoded) ==
    /\ pc = "wait"
    /\ idx \in child
    /\ success => encoded
    /\ child' = child \ {idx}
    /\ fdOut' = Closed
    /\ fdErr' = Closed
    /\ fs' = IF encoded THEN WithFile(fs, job.out, <<Byte(idx, "enc", 0)>>) ELSE fs
    /\ hist' = [hist EXCEPT !.encoded = IF encoded THEN @ \cup {job.out} ELSE @,
                            !.exits = Append(@, [src |-> job.src, ok |-> success])]
    /\ pc' = IF success THEN "success" ELSE "failure"
    /\ UNCHANGED <<dirs, env, job, wrote, nwrites, video_files, idx, pb, stderr, stdout,
                   input, exit, fatal>>

\* lines 65-66: ffmpeg_status.success(), pb.inc(1)
JobSucceeded ==
    /\ pc = "success"
    /\ pb' = [pb EXCEPT !.pos = @ + 1]
    /\ idx' = idx + 1
    /\ pc' = "for"
    /\ UNCHANGED <<world, procs, video_files, stderr, stdout, input, exit, fatal, hist>>

\* a variant that tries a failed file again before going on
JobFailedRetries ==
    /\ pc = "failure"
    /\ stderr' = Append(stderr, Msg("Failed to process file", video_files[idx]))
    /\ idx' = IF Len(hist.exits) <= idx THEN idx ELSE idx + 1
    /\ pc' = "for"
    /\ UNCHANGED <<world, procs, video_files, pb, stdout, input, exit, fatal, hist>>

\* a variant that steps the bar for a failed file too
JobFailedCounts ==
    /\ pc = "failure"
    /\ stderr' = Append(stderr, Msg("Failed to process file", video_files[idx]))
    /\ pb' = [pb EXCEPT !.pos = @ + 1]
    /\ idx' = idx + 1
    /\ pc' = "for"
    /\ UNCHANGED <<world, procs, video_files, stdout, input, exit, fatal, hist>>

\* lines 67-69: eprintln!("Failed to process file: {:?}", video_file)
JobFailed ==
    /\ pc = "failure"
    /\ stderr' = Append(stderr, Msg("Failed to process file", video_files[idx]))
    /\ idx' = idx + 1
    /\ pc' = "for"
    /\ UNCHANGED <<world, procs, video_files, pb, stdout, input, exit, fatal, hist>>

\* lines 72-73: pb.finish_with_message(..), return Ok(())
Finish ==
    /\ pc = "for"
    /\ idx > Len(video_files)
    /\ pb' = [pb EXCEPT !.finished = @ + 1]
    /\ stderr' = Append(stderr, Msg("Video compression completed.", NoPath))
    /\ pc' = "main_collect"
    /\ UNCHANGED <<world, procs, video_files, idx, stdout, input, exit, fatal, hist>>

-----------------------------------------------------------------------------
(* main, lines 129-141, and delete_original_files, lines 76-97.            *)

\* a variant that hands the list collected before the compression to
\* delete_original_files
MainCollectKeepsList ==
    /\ pc = "main_collect"
    /\ video_files' = video_files
    /\ pc' = "delete_entry"
    /\ UNCHANGED <<world, procs, idx, pb, stderr, stdout, input, exit, fatal, hist>>

\* lines 132-137: the fresh enumeration of the input directory
MainCollect ==
    /\ pc = "main_collect"
    /\ video_files' = CollectFiles(DOMAIN fs, dirs, unreadable, links, input_directory)
    /\ pc' = "delete_entry"
    /\ UNCHANGED <<world, procs, idx, pb, stderr, stdout, input, exit, fatal, hist>>

\* lines 78-80 and 141: nothing to delete, return Ok(())
NothingToDelete ==
    /\ pc = "delete_entry"
    /\ video_files = <<>>
    /\ pc' = "exited"
    /\ exit' = 0
    /\ UNCHANGED <<world, procs, video_files, idx, pb, stderr, stdout, input,
                   fatal, hist>>

\* lines 82-83: print the question and flush standard output
Prompt ==
    /\ pc = "delete_entry"
    /\ video_files # <<>>
    /\ stdout' = Append(stdout, Msg("Do you want to delete the original files? (Y/N): ", NoPath))
    /\ hist' = [hist EXCEPT !.prompts = @ + 1]
    /\ pc' = "read_line"
    /\ UNCHANGED <<world, procs, video_files, idx, pb, stderr, input, exit, fatal>>

\* line 83: io::stdout().flush()? returns the error
FlushFails ==
    /\ pc = "delete_entry"
    /\ video_files # <<>>
    /\ Fail("flush")
    /\ UNCHANGED <<world, procs, video_files, idx, pb, stdout, input, hist>>

\* the characters of an answer
LF == "\n"
CR == "\r"
Space == " "
BodyChars == {"y", "Y", "n", "o", Space, CR}

\* char::is_whitespace
is_whitespace(c) == c \in {Space, CR, LF, "\t"}

RECURSIVE trim_start(_)
trim_start(s) ==
    IF s # <<>> /\ is_whitespace(Head(s)) THEN trim_start(Tail(s)) ELSE s

RECURSIVE trim_end(_)
trim_end(s) ==
    IF s # <<>> /\ is_whitespace(Last(s)) THEN trim_end(Front(s)) ELSE s

\* str::trim
trim(s) == trim_end(trim_start(s))

\* u8::to_ascii_uppercase
to_ascii_uppercase(c) ==
    CASE c = "y" -> "Y" [] c = "n" -> "N" [] c = "o" -> "O" [] OTHER -> c

\* str::eq_ignore_ascii_case
eq_ignore_ascii_case(a, b) ==
    /\ Len(a) = Len(b)
    /\ \A k \in 1..Len(a) : to_ascii_uppercase(a[k]) = to_ascii_uppercase(b[k])

\* mutant of IsConsent: only the first letter of the answer is compared
IsConsentFirstLetter(line) ==
    trim(line) # <<>> /\ to_ascii_uppercase(Head(trim(line))) = "Y"

\* line 88: input.trim().eq_ignore_ascii_case("Y")
IsConsent(line) == eq_ignore_ascii_case(trim(line), <<"Y">>)

\* what read_line can put into the String: at most n characters up to the
\* line feed, or up to the end of the input when there is none
Lines(n) ==
    LET bodies == UNION {[1..k -> BodyChars] : k \in 0..n}
    IN  bodies \cup {Append(b, LF) : b \in bodies}

\* the answers of the runs of the whole program
Answers == {<<"Y", LF>>, <<"n", LF>>, <<Space, "y", LF>>, <<>>}

\* lines 85-86: io::stdin().read_line(&mut input) reads one of the lines L
ReadLine(L) ==
    /\ pc = "read_line"
    /\ \E l \in L : input' = l
    /\ hist' = [hist EXCEPT !.reads = @ + 1]
    /\ pc' = "confirm"
    /\ UNCHANGED <<world, procs, video_files, idx, pb, stderr, stdout, exit, fatal>>

\* line 86: read_line(..)? returns the error
ReadLineFails ==
    /\ pc = "read_line"
    /\ Fail("read_line")
    /\ UNCHANGED <<world, procs, video_files, idx, pb, stdout, input, hist>>

\* line 88 false, lines 96 and 141: return Ok(())
Declined ==
    /\ pc = "confirm"
    /\ ~IsConsent(input)
    /\ pc' = "exited"
    /\ exit' = 0
    /\ UNCHANGED <<world, procs, video_files, idx, pb, stderr, stdout, input,
                   fatal, hist>>

\* line 88 true: enter the loop of line 89
Consented ==
    /\ pc = "confirm"
    /\ IsConsent(input)
    /\ idx' = 1
    /\ pc' = "remove"
    /\ UNCHANGED <<world, procs, video_files, pb, stderr, stdout, input, exit,
                   fatal, hist>>

\* mutant of RemoveFile: the file is reported but not removed
RemoveFileKeepsFile ==
    /\ pc = "remove"
    /\ idx <= Len(video_files)
    /\ stdout' = Append(stdout, Msg("Deleted file", video_files[idx]))
    /\ hist' = [hist EXCEPT !.deleted = Append(@, video_files[idx])]
    /\ idx' = idx + 1
    /\ UNCHANGED <<world, procs, pc, video_files, pb, stderr, input, exit, fatal>>

\* lines 90-91: fs::remove_file(&video_file), println!("Deleted file: ..")
RemoveFile ==
    /\ pc = "remove"
    /\ idx <= Len(video_files)
    /\ video_files[idx] \in DOMAIN fs
    /\ fs' = WithoutFile(fs, video_files[idx])
    /\ stdout' = Append(stdout, Msg("Deleted file", video_files[idx]))
    /\ hist' = [hist EXCEPT !.deleted = Append(@, video_files[idx])]
    /\ idx' = idx + 1
    /\ UNCHANGED <<dirs, env, procs, pc, video_files, pb, stderr, input, exit, fatal>>

\* a variant that reports the error and goes on with the next file
RemoveFileFailsContinues ==
    /\ pc = "remove"
    /\ idx <= Len(video_files)
    /\ fatal' = "remove_file"
    /\ stderr' = Append(stderr, Msg("Error", NoPath))
    /\ idx' = idx + 1
    /\ UNCHANGED <<world, procs, pc, video_files, pb, stdout, input, exit, hist>>

\* line 90: fs::remove_file(&video_file)? returns the error
RemoveFileFails ==
    /\ pc = "remove"
    /\ idx <= Len(video_files)
    /\ Fail("remove_file")
    /\ UNCHANGED <<world, procs, video_files, idx, pb, stdout, input, hist>>

\* lines 93, 96 and 141: println!("Original files deleted."), return Ok(())
DeletedAll ==
    /\ pc = "remove"
    /\ idx > Len(video_files)
    /\ stdout' = Append(stdout, Msg("Original files deleted.", NoPath))
    /\ pc' = "exited"
    /\ exit' = 0
    /\ UNCHANGED <<world, procs, video_files, idx, pb, stderr, input, fatal, hist>>

-----------------------------------------------------------------------------
(* The runs of the whole program.                                          *)

InputRoot == <<nIn>>

\* where the output directory lies: the input directory itself, inside it,
\* beside it
OutputRoots == {<<nIn>>, <<nIn, nOut>>, <<nOut>>}

\* the regular files the input tree may hold when the program starts
Candidates == {<<nIn, nA>>, <<nIn, nSub, nA>>, <<nIn, nB>>, <<nIn, nBad>>}

\* what an earlier run left in the output directory; the path of the output
\* directory may also be that of a regular file
Leftovers(out) == {join(out, nA), join(out, nALog)}

ProgramStart ==
    /\ pc = "start"
    /\ video_files = <<>>
    /\ idx = 0
    /\ job = NoJob
    /\ fdOut = Closed
    /\ fdErr = Closed
    /\ child = {}
    /\ wrote = NoWrites
    /\ nwrites = 0
    /\ pb = NewBar
    /\ stderr = <<>>
    /\ stdout = <<>>
    /\ input = <<>>
    /\ exit = -1
    /\ fatal = "none"
    /\ hist = NoHist

Init ==
    /\ input_directory = InputRoot
    /\ output_directory \in OutputRoots
    /\ links = {}
    /\ \E S \in SUBSET Candidates, outExists \in BOOLEAN, old \in BOOLEAN,
          outIsFile \in BOOLEAN :
         /\ Cardinality(S) <= MaxFiles
         /\ old => outExists /\ output_directory # input_directory
         /\ output_directory = input_directory => outExists
         /\ outIsFile => ~outExists
         /\ dirs = {InputRoot}
                   \cup {Front(p) : p \in S}
                   \cup (IF outExists THEN WithAncestors(output_directory) ELSE {})
         /\ fs = [p \in S \cup (IF old THEN Leftovers(output_directory) ELSE {})
                          \cup (IF outIsFile THEN {output_directory} ELSE {}) |->
                    IF p \in S THEN SrcContent ELSE OldContent]
    /\ unreadable \in SUBSET (dirs \ {InputRoot, output_directory})
    /\ fs0 = fs
    /\ dirs0 = dirs
    /\ ProgramStart

\* compress_videos
Batch ==
    \/ OutputDirExists
    \/ CreateDirAll
    \/ CreateDirAllFails
    \/ CollectVideoFiles
    \/ NoVideoFiles
    \/ NewProgressBar
    \/ BuildCommand
    \/ CreateStdoutLog
    \/ CreateStderrLog
    \/ CreateLogFails
    \/ Spawn
    \/ SpawnFails
    \/ ChildWritesStdout
    \/ ChildWritesStderr
    \/ \E success, encoded \in BOOLEAN : ChildExits(success, encoded)
    \/ JobSucceeded
    \/ JobFailed
    \/ Finish

\* the rest of main, the answer being one of the lines L
Cleanup(L) ==
    \/ MainCollect
    \/ NothingToDelete
    \/ Prompt
    \/ FlushFails
    \/ ReadLine(L)
    \/ ReadLineFails
    \/ Declined
    \/ Consented
    \/ RemoveFile
    \/ RemoveFileFails
    \/ DeletedAll

Next == Batch \/ Cleanup(Answers)

Spec == Init /\ [][Next]_vars

-----------------------------------------------------------------------------
(* The runs of the program on a small tree, with every answer of at most   *)
(* MaxLine characters.                                                     *)

InitAnswers ==
    /\ input_directory = InputRoot
    /\ output_directory = <<nOut>>
    /\ links = {}
    /\ unreadable = {}
    /\ dirs \in {{InputRoot}, {InputRoot, <<nOut>>}}
    /\ \E S \in SUBSET {<<nIn, nA>>, <<nIn, nB>>} : fs = [p \in S |-> SrcContent]
    /\ fs0 = fs
    /\ dirs0 = dirs
    /\ ProgramStart

NextAnswers == Batch \/ Cleanup(Lines(MaxLine))

SpecAnswers == InitAnswers /\ [][NextAnswers]_vars

-----------------------------------------------------------------------------
(* The job descriptor builder on every file name of at most MaxName        *)
(* tokens: the program after ProgressBar::new, one file discovered.        *)

NameTokens == {"a", Dot, "log", "mp4"}

\* the file names of at most n tokens; "." and ".." name no file
FileNames(n) ==
    {s \in UNION {[1..k -> NameTokens] : k \in 1..n} : \E k \in 1..Len(s) : s[k] # Dot}

InitJob ==
    /\ input_directory = InputRoot
    /\ output_directory \in OutputRoots
    /\ links = {}
    /\ unreadable = {}
    /\ \E n \in FileNames(MaxName), d \in {InputRoot, <<nIn, nSub>>} :
         /\ video_files = <<join(d, n)>>
         /\ fs = [p \in {join(d, n)} |-> SrcContent]
         /\ dirs = WithAncestors(d) \cup WithAncestors(output_directory)
    /\ fs0 = fs
    /\ dirs0 = dirs
    /\ pc = "for"
    /\ idx = 1
    /\ pb = [started |-> TRUE, len |-> 1, pos |-> 0, finished |-> 0]
    /\ job = NoJob
    /\ fdOut = Closed
    /\ fdErr = Closed
    /\ child = {}
    /\ wrote = NoWrites
    /\ nwrites = 0
    /\ stderr = <<>>
    /\ stdout = <<>>
    /\ input = <<>>
    /\ exit = -1
    /\ fatal = "none"
    /\ hist = NoHist

NextJob == BuildCommand

SpecJob == InitJob /\ [][NextJob]_vars

-----------------------------------------------------------------------------
(* File discovery on every tree of at most MaxTree entries below the root: *)
(* the program after the output directory was found to exist.              *)

TreeNodes ==
    {<<nIn, nA>>, <<nIn, nB>>, <<nIn, nSub>>, <<nIn, nSub, nA>>,
     <<nIn, nSub, nSub>>, <<nIn, nSub, nSub, nB>>}

InitDisc ==
    /\ input_directory = InputRoot
    /\ output_directory = <<nOut>>
    /\ \E F \in SUBSET TreeNodes :
         \E D \in SUBSET (TreeNodes \ F) :
           \E L \in SUBSET (TreeNodes \ (F \cup D)) :
             /\ Cardinality(F \cup D \cup L) <= MaxTree
             /\ \A p \in F \cup D \cup L : Front(p) \in D \cup {InputRoot}
             /\ fs = [p \in F |-> SrcContent]
             /\ dirs = D \cup {InputRoot, <<nOut>>}
             /\ links = L
    /\ unreadable \in SUBSET (dirs \ {<<nOut>>})
    /\ fs0 = fs
    /\ dirs0 = dirs
    /\ pc = "collect"
    /\ video_files = <<>>
    /\ idx = 0
    /\ job = NoJob
    /\ fdOut = Closed
    /\ fdErr = Closed
    /\ child = {}
    /\ wrote = NoWrites
    /\ nwrites = 0
    /\ pb = NewBar
    /\ stderr = <<>>
    /\ stdout = <<>>
    /\ input = <<>>
    /\ exit = -1
    /\ fatal = "none"
    /\ hist = NoHist

NextDisc == CollectVideoFiles \/ NoVideoFiles \/ MainCollect

SpecDisc == InitDisc /\ [][NextDisc]_vars

-----------------------------------------------------------------------------
(* What the claims speak of.                                               *)

NoFilesMsg == Msg("No video files found in the input directory.", NoPath)
CompletedMsg == Msg("Video compression completed.", NoPath)
PromptMsg == Msg("Do you want to delete the original files? (Y/N): ", NoPath)
DeletedAllMsg == Msg("Original files deleted.", NoPath)

\* the 'Failed to process file' diagnostics, in the order printed
Diagnostics == SelectSeq(stderr, LAMBDA m : m.msg = "Failed to process file")

\* the encoder invocations that exited non-zero, in order
FailedExits == SelectSeq(hist.exits, LAMBDA e : ~e.ok)

\* the calls whose io::Error main returns
IOErrors == {"create_dir_all", "File::create", "status", "flush", "read_line",
             "remove_file"}

\* the jobs of a batch are worked on at these positions
InJob == pc \in {"stdout", "stderr", "spawn", "wait", "success", "failure"}

\* C1: a batch of N files in which K encoder invocations exit non-zero and no
\* fatal I/O error occurs ends in Done: when the run is over the completion
\* message was emitted once, the progress position is N-K and the K
\* diagnostics name the K failed source paths, one each.
C1_BatchReachesDone ==
    (pc = "exited" /\ pb.started /\ fatal \notin IOErrors) =>
        /\ pb.finished = 1
        /\ CompletedMsg \in Range(stderr)
        /\ Len(hist.exits) = pb.len
        /\ pb.pos = pb.len - Len(FailedExits)
        /\ [k \in 1..Len(Diagnostics) |-> Diagnostics[k].path]
             = [k \in 1..Len(FailedExits) |-> FailedExits[k].src]

\* C1, the runs in which no Option::unwrap panics: the same statement
C1_DoneUnlessPanic ==
    (pc = "exited" /\ pb.started /\ fatal = "none") =>
        /\ pb.finished = 1
        /\ CompletedMsg \in Range(stderr)
        /\ Len(hist.exits) = pb.len
        /\ pb.pos = pb.len - Len(FailedExits)
        /\ [k \in 1..Len(Diagnostics) |-> Diagnostics[k].path]
             = [k \in 1..Len(FailedExits) |-> FailedExits[k].src]

\* the answer without its line terminator (LF or CR LF)
StripLineEnd(line) ==
    IF line # <<>> /\ Last(line) = LF
    THEN IF Len(line) >= 2 /\ line[Len(line) - 1] = CR
         THEN SubSeq(line, 1, Len(line) - 2)
         ELSE Front(line)
    ELSE line

\* the answer is the letter y or Y and nothing else
IsLetter(line) == StripLineEnd(line) \in {<<"y">>, <<"Y">>}

\* the answer holds one letter y or Y, and only whitespace around it
IsPaddedLetter(line) ==
    \E k \in 1..Len(line) :
        /\ line[k] \in {"y", "Y"}
        /\ \A m \in 1..Len(line) : m # k => line[m] \in {Space, CR, LF, "\t"}

\* C2 as claimed: files are deleted if and only if the line read is the
\* letter y or Y; after any other line nothing is deleted and nothing more
\* is done.
C2_DeletesIffLetter ==
    hist.reads = 1 =>
        IF IsLetter(input)
        THEN (pc = "exited" /\ fatal = "none") =>
                 hist.deleted = video_files /\ hist.deleted # <<>>
        ELSE /\ hist.deleted = <<>>
             /\ pc = "exited" => exit = 0 /\ stdout = <<PromptMsg>>

\* C2 as amended: files are deleted if and only if the line read, without
\* the whitespace before and after it, is the letter y or Y; after any other
\* line nothing is deleted and nothing more is done.
C2_DeletesIffTrimmedLetter ==
    hist.reads = 1 =>
        IF IsPaddedLetter(input)
        THEN /\ pc \in {"confirm", "remove", "exited"}
             /\ (pc = "exited" /\ fatal = "none") =>
                    hist.deleted = video_files /\ hist.deleted # <<>>
        ELSE /\ hist.deleted = <<>>
             /\ pc \in {"confirm", "exited"}
             /\ pc = "exited" => exit = 0 /\ stdout = <<PromptMsg>>

\* C2 witness: files were deleted on an answer padded with whitespace
C2_Witness ==
    /\ pc = "exited"
    /\ hist.deleted # <<>>
    /\ IsPaddedLetter(input)
    /\ ~IsLetter(input)

\* C3: when discovery finds no regular file, compress_videos reports it and
\* returns Ok having invoked no encoder, created no log or output file and
\* changed nothing but, possibly, created the output directory; no progress
\* bar is started and no completion message is emitted.
C3_EmptyBatch ==
    /\ (pc = "main_collect" /\ video_files = <<>>) =>
        /\ stderr = <<NoFilesMsg>>
        /\ exit = -1 /\ fatal = "none"
        /\ hist.invoked = <<>> /\ hist.exits = <<>>
        /\ hist.created = {} /\ hist.encoded = {}
        /\ fs = fs0
        /\ hist.mkdirs <= 1
        /\ dirs = dirs0 \cup (IF hist.mkdirs = 1 THEN WithAncestors(output_directory) ELSE {})
        /\ pb = NewBar
    /\ pb.started => pb.len > 0
    /\ (InJob \/ pc = "for") => video_files # <<>>
    /\ CompletedMsg \in Range(stderr) => NoFilesMsg \notin Range(stderr)

\* C3 witness: an empty batch returned after creating the output directory
C3_Witness ==
    /\ pc = "main_collect"
    /\ video_files = <<>>
    /\ hist.mkdirs = 1
    /\ output_directory \in dirs

\* C4: a failure to spawn the encoder is fatal for the batch: it is not
\* reported as a failed file, no later file is handed to the encoder, the
\* completion message is not emitted, and the run ends with an error before
\* the question is asked or a file deleted.
C4_SpawnErrorIsFatal ==
    fatal = "status" =>
        /\ pc = "exited" /\ exit = 1
        /\ idx \in 1..Len(video_files)
        /\ Msg("Failed to process file", video_files[idx]) \notin Range(stderr)
        /\ Len(Diagnostics) = Len(FailedExits)
        /\ hist.invoked = SubSeq(video_files, 1, idx - 1)
        /\ Len(hist.exits) = idx - 1
        /\ child = {}
        /\ pb.finished = 0 /\ CompletedMsg \notin Range(stderr)
        /\ hist.prompts = 0 /\ hist.reads = 0 /\ stdout = <<>>
        /\ hist.deleted = <<>>

\* C4 witness: the spawn failed for the first of several files
C4_Witness ==
    /\ fatal = "status"
    /\ pc = "exited"
    /\ idx = 1
    /\ Len(video_files) >= 2

\* the state the run is in when a set-up call has failed
C5_Aborted ==
    fatal \in {"create_dir_all", "File::create"} =>
        /\ pc = "exited" /\ exit = 1
        /\ fatal = "create_dir_all" => video_files = <<>> /\ ~pb.started
        /\ hist.invoked = SubSeq(video_files, 1, idx - 1)
        /\ Len(hist.exits) = Len(hist.invoked)
        /\ child = {}
        /\ pb.finished = 0 /\ CompletedMsg \notin Range(stderr)
        /\ hist.prompts = 0 /\ hist.reads = 0 /\ stdout = <<>>
        /\ hist.deleted = <<>>

\* the failing set-up call changes neither files, directories, progress nor
\* anything the earlier jobs did
C5_AbortStep ==
    (fatal = "none" /\ fatal' \in {"create_dir_all", "File::create"}) =>
        /\ fs' = fs /\ dirs' = dirs
        /\ pb' = pb
        /\ hist' = hist
        /\ stderr' = Append(stderr, Msg("Error", NoPath))

\* C5: when the output directory or a job's log file cannot be created the
\* run aborts at once: the encoder is invoked neither for that job nor for a
\* later one, the completed jobs are left as they are, no completion message
\* is emitted and the clean-up gate is never reached.
C5_SetupErrorAborts == []C5_Aborted /\ [][C5_AbortStep]_vars

\* C5 witness: the log file of the second job could not be created after the
\* first job had succeeded
C5_Witness ==
    /\ fatal = "File::create"
    /\ pc = "exited"
    /\ idx = 2
    /\ pb.pos = 1
    /\ hist.encoded # {}

\* C6: the exit status is non-zero only when an unrecoverable I/O error
\* occurred; encoder failures, however many, leave it at success.
C6_ExitStatus ==
    /\ exit \notin {-1, 0} => fatal \in IOErrors
    /\ (pc = "exited" /\ fatal = "none") => exit = 0

\* the 'Deleted file' reports of the first n files of the list
DeletedMsgs(n) == [k \in 1..n |-> Msg("Deleted file", video_files[k])]

\* C7: on consent and without a deletion error the gate deletes every file
\* of the fresh enumeration, the files whose compression failed and the files
\* the batch never touched among them, reports each deletion once, and then
\* confirms once, after the last deletion.
C7_ConsentDeletesAll ==
    /\ pc = "remove" =>
        /\ idx \in 1..(Len(video_files) + 1)
        /\ hist.deleted = SubSeq(video_files, 1, idx - 1)
        /\ stdout = <<PromptMsg>> \o DeletedMsgs(idx - 1)
        /\ \A k \in 1..(idx - 1) : video_files[k] \notin DOMAIN fs
    /\ (pc = "exited" /\ exit = 0 /\ hist.reads = 1 /\ IsPaddedLetter(input)) =>
        /\ hist.deleted = video_files
        /\ stdout = <<PromptMsg>> \o DeletedMsgs(Len(video_files)) \o <<DeletedAllMsg>>
        /\ Range(video_files) \cap DOMAIN fs = {}
        /\ CollectFiles(DOMAIN fs, dirs, unreadable, links, input_directory) = <<>>
        /\ \A k \in 1..Len(hist.exits) : hist.exits[k].src \notin DOMAIN fs

\* C7 witness: the gate deleted a file whose compression had failed and a
\* file the batch never handed to the encoder
C7_Witness ==
    /\ pc = "exited" /\ exit = 0
    /\ DeletedAllMsg \in Range(stdout)
    /\ \E k \in 1..Len(FailedExits) : FailedExits[k].src \in Range(hist.deleted)
    /\ \E p \in Range(hist.deleted) : p \notin Range(hist.invoked)

\* the file name has an extension: a dot that is not its first character
HasExtension(n) == \E k \in 2..Len(n) : n[k] = Dot

\* C8: the output path is the output root joined with the file name of the
\* source path, its directories dropped; the log path is the output path with
\* the extension replaced by "log", or with ".log" appended when the file
\* name has no extension.
C8_JobPaths ==
    pc = "stdout" =>
        LET n == Last(job.src)
            ln == Last(job.log)
        IN  /\ job.src = video_files[idx]
            /\ Len(job.out) = Len(output_directory) + 1
            /\ Front(job.out) = output_directory
            /\ Last(job.out) = n
            /\ Len(job.log) = Len(output_directory) + 1
            /\ Front(job.log) = output_directory
            /\ IF HasExtension(n)
               THEN \E k \in 2..Len(n) :
                        /\ n[k] = Dot
                        /\ \A m \in (k + 1)..Len(n) : n[m] # Dot
                        /\ ln = SubSeq(n, 1, k - 1) \o <<Dot, "log">>
               ELSE ln = n \o <<Dot, "log">>

\* C8 witness: the job of a source file in a subdirectory whose name has no
\* extension
C8_Witness ==
    /\ pc = "stdout"
    /\ Len(job.src) = 3
    /\ ~HasExtension(Last(job.src))
    /\ job.log = Append(output_directory, Last(job.src) \o <<Dot, "log">>)

\* C9: once the encoder of a job has exited, the log file holds every byte
\* it wrote to standard output and every byte it wrote to standard error,
\* and nothing of an earlier job or run.
C9_LogHoldsBothStreams ==
    (pc \in {"success", "failure"} /\ job.log # job.out) =>
        /\ \A b \in Range(wrote.out) \cup Range(wrote.err) : b \in Range(fs[job.log])
        /\ \A b \in Range(fs[job.log]) : b.job = idx

\* the regular files below the input directory that the walk can reach
ReadableFiles ==
    {p \in DOMAIN fs :
        /\ IsPrefix(input_directory, p)
        /\ \A k \in Len(input_directory)..(Len(p) - 1) :
               SubSeq(p, 1, k) \in dirs \ unreadable}

\* C10: discovery returns the regular files of the tree as a set: no
\* directory, no file twice; what cannot be read is left out and causes no
\* failure.
C10_Discovery ==
    pc \in {"is_empty", "delete_entry"} =>
        /\ Range(video_files) = ReadableFiles
        /\ Len(video_files) = Cardinality(ReadableFiles)
        /\ unreadable = {} =>
               Range(video_files) = {p \in DOMAIN fs : IsPrefix(input_directory, p)}
        /\ Range(video_files) \cap (dirs \cup links) = {}
        /\ fatal = "none" /\ exit = -1

\* C10 witness: a file was found and the files of an unreadable directory
\* were left out
C10_Witness ==
    /\ pc = "is_empty"
    /\ video_files # <<>>
    /\ unreadable # {}
    /\ Range(video_files) # DOMAIN fs

-----------------------------------------------------------------------------
(* C11: jobs run strictly one after the other.                             *)

\* the outcomes the loop has recorded: a step of the bar or a diagnostic
Recorded == pb.pos + Len(Diagnostics)

\* C11: at every point at most one encoder is alive, it is the one of the
\* current job and the program is waiting for it; and when the log files and
\* the encoder of a job are created (the positions "stdout", "stderr",
\* "spawn" of job idx) no encoder is alive, every earlier job has exited and
\* every earlier job's outcome, a step of the bar or a failure diagnostic, has
\* been recorded.  A log file or an encoder is created in no other position.
C11_OneJobAtATime ==
    /\ [](/\ Cardinality(child) <= 1
          /\ child # {} => child = {idx} /\ pc = "wait"
          /\ pc \in {"stdout", "stderr", "spawn"} =>
                /\ child = {}
                /\ Len(hist.exits) = idx - 1
                /\ Recorded = idx - 1
                /\ Len(hist.invoked) = idx - 1)
    /\ [][(Len(hist.invoked') # Len(hist.invoked) \/ (child' \ child) # {})
             => pc = "spawn" /\ child = {} /\ Recorded = idx - 1]_vars
    /\ [][((fdOut = Closed /\ fdOut' # Closed) \/ (fdErr = Closed /\ fdErr' # Closed))
             => pc \in {"stdout", "stderr"} /\ child = {} /\ Recorded = idx - 1]_vars

\* the second job's encoder is running, after a first job that failed
C11_Witness ==
    /\ pc = "wait"
    /\ idx = 2
    /\ child = {2}
    /\ Len(hist.exits) = 1
    /\ ~hist.exits[1].ok

-----------------------------------------------------------------------------
(* C12: one encoder invocation per discovered file, in discovery order.    *)

\* no element of the sequence occurs twice
NoRepeat(s) == \A i, j \in 1..Len(s) : s[i] = s[j] => i = j

\* the batch is over: compress_videos has returned from a non-empty list
BatchDone == pc = "main_collect" /\ pb.started

\* C12: the encoder invocations made so far are the discovered list up to the
\* current job, file by file and in discovery order: nothing is invoked
\* twice (a failed file is not tried again), nothing is skipped and nothing
\* outside the list is invoked.  When the batch ends without a fatal error
\* the invocations are exactly the discovered list, and nothing is invoked
\* after the batch.
C12_InvokedOncePerFile ==
    /\ [](/\ pc \in {"for", "stdout", "stderr", "spawn"} =>
                hist.invoked = SubSeq(video_files, 1, idx - 1)
          /\ pc \in {"wait", "success", "failure"} =>
                hist.invoked = SubSeq(video_files, 1, idx)
          /\ BatchDone => hist.invoked = video_files
          /\ NoRepeat(hist.invoked)
          /\ pc = "exited" /\ fatal = "none" /\ pb.started =>
                Len(hist.invoked) = pb.len)
    /\ [][pc \notin {"spawn"} => hist.invoked' = hist.invoked]_vars

\* the batch of two files is over, the first file failed and was invoked once
C12_Witness ==
    /\ BatchDone
    /\ Len(hist.invoked) = 2
    /\ ~hist.exits[1].ok
    /\ hist.exits[2].ok
    /\ hist.invoked[1] # hist.invoked[2]

-----------------------------------------------------------------------------
(* C13: the progress bar counts the successful jobs.                       *)

\* the encoder invocations that exited with status zero, in order
OkExits == SelectSeq(hist.exits, LAMBDA e : e.ok)

\* the loop of compress_videos is running
Running == pb.started /\ (pc = "for" \/ InJob)

\* C13: while the loop runs, the total of the bar is the number of
\* discovered files and never changes; the position is the number of jobs
\* that have exited with status zero (the job that has just exited with zero
\* is counted by the very next step of the program); 0 <= position <= jobs
\* finished <= total; and the position moves only by one, and only for a job
\* that exited with status zero.
C13_ProgressBar ==
    /\ [](Running =>
            /\ pb.len = Len(video_files)
            /\ pb.pos = Len(OkExits) - (IF pc = "success" THEN 1 ELSE 0)
            /\ 0 <= pb.pos
            /\ pb.pos <= Len(hist.exits)
            /\ Len(hist.exits) <= pb.len)
    /\ [][pb.started => pb'.started /\ pb'.len = pb.len]_vars
    /\ [][pb'.pos # pb.pos =>
            /\ pc = "success"
            /\ hist.exits[idx].ok
            /\ pb'.pos = pb.pos + 1]_vars

\* two jobs have finished, one of them failed: the bar stands at 1 of 2
C13_Witness ==
    /\ Running
    /\ pc = "for"
    /\ pb.len = 2
    /\ Len(hist.exits) = 2
    /\ Len(FailedExits) = 1
    /\ pb.pos = 1

-----------------------------------------------------------------------------
(* C14: the output directory is created once, before every job.            *)

\* the output path existed, as a directory or as a file, when the program
\* started
OutputExisted == output_directory \in dirs0 \cup DOMAIN fs0

\* C14: the output directory is created at most once, only when its path did
\* not exist, and only in the first step of compress_videos: before the
\* enumeration, before any job's paths are computed and before any log file
\* or encoder is created.  So the output path exists in every later state of
\* a run in which the creation did not fail, and it is a directory whenever
\* an encoder has been started.  When the path exists already that first
\* step reports no error and changes nothing.
C14_OutputDirCreatedOnce ==
    /\ [](/\ hist.mkdirs <= 1
          /\ hist.mkdirs = 1 => ~OutputExisted /\ output_directory \in dirs
          /\ pc # "start" /\ fatal # "create_dir_all" => Exists(output_directory)
          /\ pc # "start" /\ fatal # "create_dir_all" /\ ~OutputExisted =>
                hist.mkdirs = 1
          /\ InJob => Exists(output_directory)
          /\ hist.invoked # <<>> => output_directory \in dirs)
    /\ [][hist'.mkdirs # hist.mkdirs =>
            /\ pc = "start"
            /\ video_files = <<>>
            /\ job = NoJob
            /\ hist.created = {}
            /\ hist.invoked = <<>>
            /\ ~pb.started]_vars
    /\ [][pc = "start" /\ Exists(output_directory) =>
            /\ pc' = "collect"
            /\ UNCHANGED <<fs, dirs, hist, stderr, stdout, exit, fatal>>]_vars

\* an encoder runs in an output directory that the program has created
C14_Witness ==
    /\ pc = "wait"
    /\ child = {idx}
    /\ hist.mkdirs = 1
    /\ output_directory \in dirs \ dirs0

-----------------------------------------------------------------------------
(* C15: a deletion error stops the cleanup at once.                        *)

\* C15: when the deletion of the j-th file of the list fails (idx = j), the
\* program has ended with the error: the j-1 files before it are deleted and
\* reported, in order; the j-th file and every file after it are still there
\* and not reported; the final confirmation is not written; the exit status
\* is 1.
C15_DeleteErrorStops ==
    fatal = "remove_file" =>
        /\ pc = "exited"
        /\ exit = 1
        /\ idx \in 1..Len(video_files)
        /\ hist.deleted = SubSeq(video_files, 1, idx - 1)
        /\ \A k \in 1..(idx - 1) : video_files[k] \notin DOMAIN fs
        /\ \A k \in idx..Len(video_files) :
              /\ video_files[k] \in DOMAIN fs
              /\ video_files[k] \notin Range(hist.deleted)
              /\ Msg("Deleted file", video_files[k]) \notin Range(stdout)
        /\ stdout = <<PromptMsg>> \o DeletedMsgs(idx - 1)
        /\ DeletedAllMsg \notin Range(stdout)

\* the deletion of the second of at least three files failed
C15_Witness ==
    /\ fatal = "remove_file"
    /\ pc = "exited"
    /\ idx = 2
    /\ Len(video_files) >= 3
    /\ Len(hist.deleted) = 1

-----------------------------------------------------------------------------
(* The program next to other processes that change the input directory     *)
(* while the batch runs: between the enumeration of compress_videos (lines *)
(* 16-21) and the enumeration of main (lines 132-137) files appear in it   *)
(* and vanish from it.                                                     *)

\* how many changes the other processes make in one run
MaxEnv == 2

\* the paths the other processes create or remove
EnvPaths == {<<nIn, nA>>, <<nIn, nB>>}

\* the positions between the two enumerations at which a change is observed:
\* before the loop, between two jobs, after the loop
BetweenEnumerations == pc \in {"is_empty", "for", "main_collect"}

\* another process creates a file below the input directory
EnvAppears(p) ==
    /\ BetweenEnumerations
    /\ Cardinality(hist.appeared) + Cardinality(hist.vanished) < MaxEnv
    /\ ~Exists(p)
    /\ p \notin hist.vanished
    /\ fs' = WithFile(fs, p, SrcContent)
    /\ hist' = [hist EXCEPT !.appeared = @ \cup {p}]
    /\ UNCHANGED <<dirs, env, procs, pc, video_files, idx, pb, stderr, stdout, input,
                   exit, fatal>>

\* another process removes a file below the input directory
EnvVanishes(p) ==
    /\ BetweenEnumerations
    /\ Cardinality(hist.appeared) + Cardinality(hist.vanished) < MaxEnv
    /\ p \in DOMAIN fs
    /\ p \notin hist.appeared
    /\ fs' = WithoutFile(fs, p)
    /\ hist' = [hist EXCEPT !.vanished = @ \cup {p}]
    /\ UNCHANGED <<dirs, env, procs, pc, video_files, idx, pb, stderr, stdout, input,
                   exit, fatal>>

InitEnv ==
    /\ input_directory = InputRoot
    /\ output_directory \in OutputRoots
    /\ links = {}
    /\ unreadable = {}
    /\ dirs \in {{InputRoot}, {InputRoot} \cup WithAncestors(output_directory)}
    /\ \E S \in SUBSET EnvPaths : fs = [p \in S |-> SrcContent]
    /\ fs0 = fs
    /\ dirs0 = dirs
    /\ ProgramStart

NextEnv ==
    \/ Batch
    \/ Cleanup({<<"Y", LF>>, <<"n", LF>>})
    \/ \E p \in EnvPaths : EnvAppears(p)
    \/ \E p \in EnvPaths : EnvVanishes(p)

SpecEnv == InitEnv /\ [][NextEnv]_vars

-----------------------------------------------------------------------------
(* C16: the cleanup works on the enumeration taken after the compression.  *)

\* delete_original_files holds its list and has deleted nothing yet
GateOpen == pc \in {"delete_entry", "read_line", "confirm"}

\* C16: the list delete_original_files receives is the enumeration of the
\* input directory as it is after compress_videos returned: exactly the
\* files below the input directory at that time.  A file that appeared during
\* the batch is in it, although no encoder was invoked on it; a file that
\* vanished during the batch is not in it, although an encoder may have been
\* invoked on it.  When that enumeration is empty the gate returns with
\* status 0 without asking and without reading standard input; it asks only
\* over a non-empty list.
C16_CleanupUsesFreshList ==
    /\ GateOpen =>
        /\ Range(video_files) = ReadableFiles
        /\ NoRepeat(video_files)
        /\ \A p \in hist.appeared : p \in DOMAIN fs => p \in Range(video_files)
        /\ \A p \in hist.vanished : p \notin DOMAIN fs => p \notin Range(video_files)
    /\ hist.prompts + hist.reads > 0 => video_files # <<>>
    /\ (pc = "exited" /\ exit = 0 /\ video_files = <<>>) =>
        /\ hist.prompts = 0
        /\ hist.reads = 0
        /\ stdout = <<>>
        /\ hist.deleted = <<>>
    /\ Range(hist.deleted) \subseteq Range(video_files)

\* the gate holds a list with a file that appeared during the batch and was
\* never given to the encoder, and without a file the encoder was invoked on
\* that vanished during the batch
C16_Witness ==
    /\ pc = "delete_entry"
    /\ \E p \in hist.appeared :
          p \in Range(video_files) /\ p \notin Range(hist.invoked)
    /\ \E q \in hist.vanished :
          q \notin Range(video_files) /\ q \in Range(hist.invoked)

-----------------------------------------------------------------------------
(* C17: source files of the same name share one output and one log.        *)

\* the loop of compress_videos stands between two jobs, or has ended
BetweenJobs == pb.started /\ pc \in {"for", "main_collect"}

\* the paths of the k-th job of the batch
JobOf(k) == BuildJob(output_directory, video_files[k])

\* no job that finished after job j has used the output path or the log path
\* of job j
LastOn(j) ==
    \A k \in (j + 1)..Len(hist.exits) :
        {JobOf(k).out, JobOf(k).log} \cap {JobOf(j).out, JobOf(j).log} = {}

-----------------------------------------------------------------------------
(* C18: the log path and the output path of a job.                         *)

\* C18: for every job the log path differs from the output path, whatever
\* the source file name, names with the extension "log" included.
C18_LogDiffersFromOutput ==
    pc = "stdout" => job.log # job.out

-----------------------------------------------------------------------------
(* C19: the paths a job writes and the source files.                       *)

\* C19: compression never modifies a source file: the output path and the
\* log path of every job differ from the job's own source path and from every
\* other discovered source path, wherever the output directory lies (equal
\* to the input directory, inside it, disjoint from it) and whether or not it
\* holds files of an earlier run.
C19_SourcesNotWritten ==
    InJob =>
        /\ job.out \notin Range(video_files)
        /\ job.log \notin Range(video_files)

-----------------------------------------------------------------------------
(* C20: the files the cleanup deletes and the files the batch produced.    *)

\* C20: the cleanup never deletes a file the batch has produced: no output
\* file the encoder wrote and no log file compress_videos created is among
\* the deleted files, wherever the output directory lies.
C20_ProducedNotDeleted ==
    Range(hist.deleted) \cap (hist.created \cup hist.encoded) = {}

====
